---- MODULE Spec2Model ----
(***************************************************************************)
(* Model of two pieces of the DataFusion planner:                          *)
(*   - datafusion/sql/src/set_expr.rs: SqlToRel::set_expr_to_plan and its  *)
(*     helpers (is_union_all, validate_set_expr_num_of_columns,            *)
(*     set_operation_to_plan);                                             *)
(*   - datafusion/functions/src/unicode/character_length.rs:               *)
(*     character_length and character_length_general.                      *)
(* set_expr_to_plan is a recursive function; it is modelled as a machine   *)
(* with an explicit call stack, one action per program position.           *)
(***************************************************************************)
EXTENDS Integers, Sequences, FiniteSets, TLC

VARIABLES
    input,      \* the SetExpr handed to set_expr_to_plan
    stack,      \* call stack of set_expr_to_plan / query_to_plan frames
    ret,        \* value returned by the call that has just finished (0 or 1 element)
    calls,      \* log of the calls made so far, in program order
    visited,    \* paths of the nodes set_expr_to_plan was entered with, in order
    results,    \* path of a finished node -> the Result it returned
    result,     \* the Result of the whole translation (0 or 1 element)
    union_all,  \* what a downstream caller got from is_union_all (0 or 1 element)
    array,      \* the argument of character_length
    out         \* the array character_length returned (0 or 1 element)

vars == <<input, stack, ret, calls, visited, results, result,
          union_all, array, out>>

setVars == <<input, stack, ret, calls, visited, results, result,
             union_all>>
lenVars == <<array, out>>

(***************************************************************************)
(* Bounds of the model.                                                    *)
(***************************************************************************)
MaxCols == 2     \* largest number of columns of a SELECT / VALUES leaf
MaxNest == 3     \* longest chain of nested Query nodes
MaxStrLen == 2   \* longest string, in code points
MaxRows == 2     \* longest string array

(***************************************************************************)
(* sqlparser::ast::{SetOperator, SetQuantifier} and their Display.         *)
(***************************************************************************)
SetOperator == {"Union", "Intersect", "Except"}
SetQuantifier == {"All", "Distinct", "ByName", "AllByName", "DistinctByName", "None"}

\* `{op}` in a format string: Display of SetOperator writes the SQL keyword.
OperatorDisplay(op) ==
    CASE op = "Union" -> "UNION"
      [] op = "Intersect" -> "INTERSECT"
      [] op = "Except" -> "EXCEPT"

\* `{quantifier}` in a format string: Display of SetQuantifier.
QuantifierDisplay(q) ==
    CASE q = "All" -> "ALL"
      [] q = "Distinct" -> "DISTINCT"
      [] q = "ByName" -> "BY NAME"
      [] q = "AllByName" -> "ALL BY NAME"
      [] q = "DistinctByName" -> "DISTINCT BY NAME"
      [] q = "None" -> ""

(***************************************************************************)
(* Result<T>, DataFusionError and Diagnostic.                              *)
(***************************************************************************)
Ok(v) == [ok |-> TRUE, val |-> v]
Err(e) == [ok |-> FALSE, err |-> e]

Unit == [node |-> "()"]

NotImplemented(msg) == [kind |-> "NotImplemented", message |-> msg]
Collection(errs) == [kind |-> "Collection", errors |-> errs]
Note(msg, span) == [message |-> msg, span |-> span]
Diagnostic(msg, span, notes) == [message |-> msg, span |-> span, notes |-> notes]
PlanErr(msg, diagnostic) == [kind |-> "Plan", message |-> msg, diagnostic |-> diagnostic]

(***************************************************************************)
(* The SetExpr tree.  A Select / Values leaf stands for a clause of        *)
(* `ncols` output columns that its sub-planner accepts (valid) or rejects; *)
(* a SetOperation carries, in builder_ok, whether the plan builder accepts *)
(* the two plans it is given.                                              *)
(***************************************************************************)
Select(n, valid) == [kind |-> "Select", ncols |-> n, valid |-> valid]
Values(n, valid) == [kind |-> "Values", ncols |-> n, valid |-> valid]
Unsupported(text) == [kind |-> "Unsupported", text |-> text]
Query(body) == [kind |-> "Query", body |-> body]
SetOperation(op, left, right, q, b) ==
    [kind |-> "SetOperation", op |-> op, left |-> left, right |-> right,
     set_quantifier |-> q, builder_ok |-> b]

\* The node of tree t at path p; a path is a sequence of "L", "R", "Q".
RECURSIVE SubExpr(_, _)
SubExpr(t, p) ==
    IF p = <<>> THEN t
    ELSE CASE Head(p) = "L" -> SubExpr(t.left, Tail(p))
           [] Head(p) = "R" -> SubExpr(t.right, Tail(p))
           [] Head(p) = "Q" -> SubExpr(t.body, Tail(p))

\* Number of tokens of the text of e: a leaf is one token, a set operation is
\* its operands around the operator, a nested query is its body in parentheses.
RECURSIVE Width(_)
Width(e) ==
    CASE e.kind = "SetOperation" -> Width(e.left) + 1 + Width(e.right)
      [] e.kind = "Query" -> Width(e.body) + 2
      [] OTHER -> 1

\* Position of the first token of the node at path p of t.
RECURSIVE StartOf(_, _, _)
StartOf(t, p, at) ==
    IF p = <<>> THEN at
    ELSE CASE Head(p) = "L" -> StartOf(t.left, Tail(p), at)
           [] Head(p) = "R" -> StartOf(t.right, Tail(p), at + Width(t.left) + 1)
           [] Head(p) = "Q" -> StartOf(t.body, Tail(p), at + 1)

\* Span::try_from_sqlparser_span(node.span()): the source range of the node.
SpanOf(t, p) ==
    [start |-> StartOf(t, p, 1),
     end |-> StartOf(t, p, 1) + Width(SubExpr(t, p)) - 1]

(***************************************************************************)
(* LogicalPlan.  schema is the sequence of the plan's fields.              *)
(***************************************************************************)
Schema(n) == [i \in 1..n |-> i]
LeafPlan(node, n, span) ==
    [node |-> node, all |-> FALSE, inputs |-> <<>>, schema |-> Schema(n), span |-> span]
SetPlan(node, all, left, right, schema) ==
    [node |-> node, all |-> all, inputs |-> <<left, right>>, schema |-> schema,
     span |-> [start |-> 0, end |-> 0]]

\* left_plan.schema().fields().len()
FieldsLen(plan) == Len(plan.schema)

(***************************************************************************)
(* Collaborators of set_expr_to_plan: the leaf sub-planners, query_to_plan *)
(* and the LogicalPlanBuilder operations.                                  *)
(***************************************************************************)
\* select_to_plan(select, None, planner_context)
select_to_plan(s, span) ==
    IF s.valid
    THEN Ok(LeafPlan("Projection", s.ncols, span))
    ELSE Err(PlanErr("invalid SELECT", Diagnostic("invalid SELECT", span, <<>>)))

\* sql_values_to_plan(values, planner_context)
sql_values_to_plan(v, span) ==
    IF v.valid
    THEN Ok(LeafPlan("Values", v.ncols, span))
    ELSE Err(PlanErr("invalid VALUES", Diagnostic("invalid VALUES", span, <<>>)))

\* A failure of a LogicalPlanBuilder operation (e.g. incompatible types).
BuilderErr(fn) == PlanErr(fn, Diagnostic(fn, [start |-> 0, end |-> 0], <<>>))

\* Columns of the by-name union of two schemas: those of the left, then those
\* of the right that the left does not have.
RECURSIVE ByNameSchema(_, _)
ByNameSchema(l, r) ==
    IF r = <<>> THEN l
    ELSE ByNameSchema(IF \E i \in 1..Len(l) : l[i] = Head(r) THEN l ELSE Append(l, Head(r)),
                      Tail(r))

\* LogicalPlanBuilder::from(left).union(right)?.build()
union(left, right, accepts) ==
    IF accepts THEN Ok(SetPlan("union", TRUE, left, right, left.schema))
    ELSE Err(BuilderErr("union"))

\* LogicalPlanBuilder::from(left).union_by_name(right)?.build()
union_by_name(left, right, accepts) ==
    IF accepts
    THEN Ok(SetPlan("union_by_name", TRUE, left, right, ByNameSchema(left.schema, right.schema)))
    ELSE Err(BuilderErr("union_by_name"))

\* LogicalPlanBuilder::from(left).union_distinct(right)?.build()
union_distinct(left, right, accepts) ==
    IF accepts THEN Ok(SetPlan("union_distinct", FALSE, left, right, left.schema))
    ELSE Err(BuilderErr("union_distinct"))

\* LogicalPlanBuilder::from(left).union_by_name_distinct(right)?.build()
union_by_name_distinct(left, right, accepts) ==
    IF accepts
    THEN Ok(SetPlan("union_by_name_distinct", FALSE, left, right,
                    ByNameSchema(left.schema, right.schema)))
    ELSE Err(BuilderErr("union_by_name_distinct"))

\* LogicalPlanBuilder::intersect(left, right, is_all)
intersect(left, right, is_all, accepts) ==
    IF accepts THEN Ok(SetPlan("intersect", is_all, left, right, left.schema))
    ELSE Err(BuilderErr("intersect"))

\* LogicalPlanBuilder::except(left, right, is_all)
except(left, right, is_all, accepts) ==
    IF accepts THEN Ok(SetPlan("except", is_all, left, right, left.schema))
    ELSE Err(BuilderErr("except"))

\* One entry of the call log: the function, the node it was called for, and
\* the plan operands it was given (builder operations only).
Call(fn, path, args) == [fn |-> fn, path |-> path, args |-> args]

BuilderFns ==
    {"union", "union_by_name", "union_distinct", "union_by_name_distinct",
     "intersect", "except"}

(***************************************************************************)
(* set_expr.rs                                                             *)
(***************************************************************************)
\* is_union_all with the by-name arm misplaced.
is_union_all_byname(set_quantifier) ==
    CASE set_quantifier \in {"All", "AllByName", "DistinctByName"} -> Ok(TRUE)
      [] set_quantifier \in {"Distinct", "ByName", "None"} -> Ok(FALSE)

\* is_union_all(set_quantifier) -> Result<bool>
is_union_all(set_quantifier) ==
    CASE set_quantifier \in {"All", "AllByName"} -> Ok(TRUE)
      [] set_quantifier \in {"Distinct", "ByName", "DistinctByName", "None"} -> Ok(FALSE)

\* validate_set_expr_num_of_columns with both notes taken from the left side.
validate_left_twice(op, left_span, right_span, left_plan, right_plan, set_expr_span) ==
    IF FieldsLen(left_plan) = FieldsLen(right_plan)
    THEN Ok(Unit)
    ELSE LET message == OperatorDisplay(op) \o " queries have different number of columns"
             note == Note("this side has " \o ToString(FieldsLen(left_plan)) \o " fields",
                          left_span)
         IN Err(PlanErr(message, Diagnostic(message, set_expr_span, <<note, note>>)))

\* validate_set_expr_num_of_columns(op, left_span, right_span, left_plan,
\*                                  right_plan, set_expr_span) -> Result<()>
validate_set_expr_num_of_columns(op, left_span, right_span, left_plan, right_plan, set_expr_span) ==
    IF FieldsLen(left_plan) = FieldsLen(right_plan)
    THEN Ok(Unit)
    ELSE LET message == OperatorDisplay(op) \o " queries have different number of columns"
             diagnostic ==
                 Diagnostic(message, set_expr_span,
                     << Note("this side has " \o ToString(FieldsLen(left_plan)) \o " fields",
                             left_span),
                        Note("this side has " \o ToString(FieldsLen(right_plan)) \o " fields",
                             right_span) >>)
         IN Err(PlanErr(message, diagnostic))

\* set_operation_to_plan with the operands of except exchanged.
set_operation_to_plan_swapped(op, left_plan, right_plan, set_quantifier, accepts) ==
    CASE op = "Union" /\ set_quantifier = "All" ->
            [res |-> union(left_plan, right_plan, accepts),
             invoked |-> << Call("union", <<>>, <<left_plan, right_plan>>) >>]
      [] op = "Union" /\ set_quantifier = "AllByName" ->
            [res |-> union_by_name(left_plan, right_plan, accepts),
             invoked |-> << Call("union_by_name", <<>>, <<left_plan, right_plan>>) >>]
      [] op = "Union" /\ set_quantifier \in {"Distinct", "None"} ->
            [res |-> union_distinct(left_plan, right_plan, accepts),
             invoked |-> << Call("union_distinct", <<>>, <<left_plan, right_plan>>) >>]
      [] op = "Union" /\ set_quantifier \in {"ByName", "DistinctByName"} ->
            [res |-> union_by_name_distinct(left_plan, right_plan, accepts),
             invoked |-> << Call("union_by_name_distinct", <<>>, <<left_plan, right_plan>>) >>]
      [] op = "Intersect" /\ set_quantifier = "All" ->
            [res |-> intersect(left_plan, right_plan, TRUE, accepts),
             invoked |-> << Call("intersect", <<>>, <<left_plan, right_plan, TRUE>>) >>]
      [] op = "Intersect" /\ set_quantifier \in {"Distinct", "None"} ->
            [res |-> intersect(left_plan, right_plan, FALSE, accepts),
             invoked |-> << Call("intersect", <<>>, <<left_plan, right_plan, FALSE>>) >>]
      [] op = "Except" /\ set_quantifier = "All" ->
            [res |-> except(right_plan, left_plan, TRUE, accepts),
             invoked |-> << Call("except", <<>>, <<right_plan, left_plan, TRUE>>) >>]
      [] op = "Except" /\ set_quantifier \in {"Distinct", "None"} ->
            [res |-> except(right_plan, left_plan, FALSE, accepts),
             invoked |-> << Call("except", <<>>, <<right_plan, left_plan, FALSE>>) >>]
      [] OTHER ->
            [res |-> Err(NotImplemented(OperatorDisplay(op) \o " " \o
                                        QuantifierDisplay(set_quantifier) \o
                                        " not implemented")),
             invoked |-> <<>>]

\* set_operation_to_plan(op, left_plan, right_plan, set_quantifier): the
\* Result, and the builder operation invoked with its operands (none for the
\* fall-through arm).  accepts is the builder's verdict on the two plans.
set_operation_to_plan(op, left_plan, right_plan, set_quantifier, accepts) ==
    CASE op = "Union" /\ set_quantifier = "All" ->
            [res |-> union(left_plan, right_plan, accepts),
             invoked |-> << Call("union", <<>>, <<left_plan, right_plan>>) >>]
      [] op = "Union" /\ set_quantifier = "AllByName" ->
            [res |-> union_by_name(left_plan, right_plan, accepts),
             invoked |-> << Call("union_by_name", <<>>, <<left_plan, right_plan>>) >>]
      [] op = "Union" /\ set_quantifier \in {"Distinct", "None"} ->
            [res |-> union_distinct(left_plan, right_plan, accepts),
             invoked |-> << Call("union_distinct", <<>>, <<left_plan, right_plan>>) >>]
      [] op = "Union" /\ set_quantifier \in {"ByName", "DistinctByName"} ->
            [res |-> union_by_name_distinct(left_plan, right_plan, accepts),
             invoked |-> << Call("union_by_name_distinct", <<>>, <<left_plan, right_plan>>) >>]
      [] op = "Intersect" /\ set_quantifier = "All" ->
            [res |-> intersect(left_plan, right_plan, TRUE, accepts),
             invoked |-> << Call("intersect", <<>>, <<left_plan, right_plan, TRUE>>) >>]
      [] op = "Intersect" /\ set_quantifier \in {"Distinct", "None"} ->
            [res |-> intersect(left_plan, right_plan, FALSE, accepts),
             invoked |-> << Call("intersect", <<>>, <<left_plan, right_plan, FALSE>>) >>]
      [] op = "Except" /\ set_quantifier = "All" ->
            [res |-> except(left_plan, right_plan, TRUE, accepts),
             invoked |-> << Call("except", <<>>, <<left_plan, right_plan, TRUE>>) >>]
      [] op = "Except" /\ set_quantifier \in {"Distinct", "None"} ->
            [res |-> except(left_plan, right_plan, FALSE, accepts),
             invoked |-> << Call("except", <<>>, <<left_plan, right_plan, FALSE>>) >>]
      [] OTHER ->
            [res |-> Err(NotImplemented(OperatorDisplay(op) \o " " \o
                                        QuantifierDisplay(set_quantifier) \o
                                        " not implemented")),
             invoked |-> <<>>]

\* MatchChildren with the two errors merged into one flat list.
Flattened(e) == IF e.kind = "Collection" THEN e.errors ELSE <<e>>
MatchChildren_flattening(left_plan, right_plan) ==
    CASE left_plan.ok /\ right_plan.ok ->
            [proceed |-> TRUE, ret |-> Ok(Unit)]
      [] ~left_plan.ok /\ ~right_plan.ok ->
            [proceed |-> FALSE,
             ret |-> Err(Collection(Flattened(left_plan.err) \o Flattened(right_plan.err)))]
      [] ~left_plan.ok -> [proceed |-> FALSE, ret |-> left_plan]
      [] ~right_plan.ok -> [proceed |-> FALSE, ret |-> right_plan]

\* Lines 46-56: the match on the two children's Results.  Either both plans
\* (proceed), or the Result set_expr_to_plan returns at once.
MatchChildren(left_plan, right_plan) ==
    CASE left_plan.ok /\ right_plan.ok ->
            [proceed |-> TRUE, ret |-> Ok(Unit)]
      [] ~left_plan.ok /\ ~right_plan.ok ->
            [proceed |-> FALSE, ret |-> Err(Collection(<<left_plan.err, right_plan.err>>))]
      [] ~left_plan.ok -> [proceed |-> FALSE, ret |-> left_plan]
      [] ~right_plan.ok -> [proceed |-> FALSE, ret |-> right_plan]

\* Lines 57-58: the condition under which the column-count validation is skipped.
ArityCheckSkipped(set_quantifier) ==
    set_quantifier = "ByName" \/ set_quantifier = "AllByName"

\* Lines 57-69: both children are plans; validate unless skipped, then dispatch.
\* The Result, and the calls made for the node at path p, in order.
CombinePlans(t, p, left_plan, right_plan) ==
    LET e == SubExpr(t, p)
        checked == ~ArityCheckSkipped(e.set_quantifier)
        validation ==
            IF checked
            THEN validate_set_expr_num_of_columns(
                     e.op, SpanOf(t, p \o <<"L">>), SpanOf(t, p \o <<"R">>),
                     left_plan, right_plan, SpanOf(t, p))
            ELSE Ok(Unit)
        validateCall ==
            IF checked THEN << Call("validate_set_expr_num_of_columns", p, <<>>) >> ELSE <<>>
        dispatch ==
            set_operation_to_plan(e.op, left_plan, right_plan, e.set_quantifier, e.builder_ok)
    IN IF ~validation.ok
       THEN [res |-> validation, invoked |-> validateCall]
       ELSE [res |-> dispatch.res,
             invoked |-> validateCall
                         \o << Call("set_operation_to_plan", p, <<>>) >>
                         \o [i \in 1..Len(dispatch.invoked) |->
                                Call(dispatch.invoked[i].fn, p, dispatch.invoked[i].args)]]

\* SetOperationArm that wraps whatever error the combination returns.
SetOperationArm_rewrapping(t, p, left_plan, right_plan) ==
    LET m == MatchChildren(left_plan, right_plan)
        c == CombinePlans(t, p, left_plan.val, right_plan.val)
    IN IF m.proceed
       THEN [res |-> IF c.res.ok THEN c.res ELSE Err(Collection(<<c.res.err>>)),
             invoked |-> c.invoked]
       ELSE [res |-> m.ret, invoked |-> <<>>]

\* Lines 44-69 once both children have returned.
SetOperationArm(t, p, left_plan, right_plan) ==
    LET m == MatchChildren(left_plan, right_plan)
    IN IF m.proceed
       THEN CombinePlans(t, p, left_plan.val, right_plan.val)
       ELSE [res |-> m.ret, invoked |-> <<>>]

\* Line 72: not_impl_err!("Query {set_expr} not implemented yet")
UnsupportedArm(e) == Err(NotImplemented("Query " \o e.text \o " not implemented yet"))

(***************************************************************************)
(* The call stack.                                                         *)
(***************************************************************************)
Frame(path, pc, left) == [path |-> path, pc |-> pc, left |-> left]
Top == stack[Len(stack)]
Popped == SubSeq(stack, 1, Len(stack) - 1)
Repc(pc, left) == [stack EXCEPT ![Len(stack)] = Frame(Top.path, pc, left)]
Entered(kind) ==
    /\ stack # <<>>
    /\ Top.pc = "enter"
    /\ SubExpr(input, Top.path).kind = kind

\* The call at the top of the stack returns r.
Return(r) ==
    /\ stack' = Popped
    /\ ret' = <<r>>
    /\ results' = (Top.path :> r) @@ results

\* Line 34: SetExpr::Select(s) => self.select_to_plan(*s, None, planner_context)
TranslateSelect ==
    /\ Entered("Select")
    /\ visited' = Append(visited, Top.path)
    /\ calls' = Append(calls, Call("select_to_plan", Top.path, <<>>))
    /\ Return(select_to_plan(SubExpr(input, Top.path), SpanOf(input, Top.path)))
    /\ UNCHANGED <<input, result, union_all, lenVars>>

\* Line 35: SetExpr::Values(v) => self.sql_values_to_plan(v, planner_context)
TranslateValues ==
    /\ Entered("Values")
    /\ visited' = Append(visited, Top.path)
    /\ calls' = Append(calls, Call("sql_values_to_plan", Top.path, <<>>))
    /\ Return(sql_values_to_plan(SubExpr(input, Top.path), SpanOf(input, Top.path)))
    /\ UNCHANGED <<input, result, union_all, lenVars>>

\* Line 72: any other SetExpr.
TranslateUnsupported ==
    /\ Entered("Unsupported")
    /\ visited' = Append(visited, Top.path)
    /\ Return(UnsupportedArm(SubExpr(input, Top.path)))
    /\ UNCHANGED <<input, calls, result, union_all, lenVars>>

\* Lines 36-44: a SetOperation is entered and its left child is translated.
TranslateLeft ==
    /\ Entered("SetOperation")
    /\ visited' = Append(visited, Top.path)
    /\ stack' = Append(Repc("left", <<>>), Frame(Top.path \o <<"L">>, "enter", <<>>))
    /\ UNCHANGED <<input, ret, calls, results, result, union_all, lenVars>>

\* TranslateRight that returns the left child's error without translating the
\* right child.
TranslateRight_shortCircuit ==
    /\ stack # <<>>
    /\ Top.pc = "left"
    /\ ret # <<>>
    /\ IF ret[1].ok
       THEN /\ stack' = Append(Repc("right", ret), Frame(Top.path \o <<"R">>, "enter", <<>>))
            /\ ret' = <<>>
            /\ UNCHANGED results
       ELSE Return(ret[1])
    /\ UNCHANGED <<input, calls, visited, result, union_all, lenVars>>

\* Line 45: the left child has returned; the right child is translated.
TranslateRight ==
    /\ stack # <<>>
    /\ Top.pc = "left"
    /\ ret # <<>>
    /\ stack' = Append(Repc("right", ret), Frame(Top.path \o <<"R">>, "enter", <<>>))
    /\ ret' = <<>>
    /\ UNCHANGED <<input, calls, visited, results, result, union_all,
                   lenVars>>

\* Lines 46-69: the right child has returned; the set operation returns.
CombineChildren ==
    /\ stack # <<>>
    /\ Top.pc = "right"
    /\ ret # <<>>
    /\ LET arm == SetOperationArm(input, Top.path, Top.left[1], ret[1])
       IN /\ calls' = calls \o arm.invoked
          /\ Return(arm.res)
    /\ UNCHANGED <<input, visited, result, union_all, lenVars>>

\* TranslateQuery that counts the enclosing queries and, past two of them,
\* returns a recursion limit error instead of calling query_to_plan.
TranslateQuery_limited ==
    /\ Entered("Query")
    /\ visited' = Append(visited, Top.path)
    /\ IF Cardinality({i \in 1..Len(Top.path) : Top.path[i] = "Q"}) + 1 > 2
       THEN /\ Return(Err([kind |-> "RecursionLimit", message |-> "recursion limit"]))
            /\ UNCHANGED calls
       ELSE /\ calls' = Append(calls, Call("query_to_plan", Top.path, <<>>))
            /\ stack' = Append(Repc("query", <<>>),
                               Frame(Top.path \o <<"Q">>, "enter", <<>>))
            /\ UNCHANGED <<ret, results>>
    /\ UNCHANGED <<input, result, union_all, lenVars>>

\* Line 71: SetExpr::Query(q) => self.query_to_plan(*q, planner_context).
\* The query is handed to query_to_plan unconditionally; the function's only
\* protection against deep nesting is the recursive::recursive attribute of
\* line 26, which grows the stack and changes no result.
TranslateQuery ==
    /\ Entered("Query")
    /\ visited' = Append(visited, Top.path)
    /\ calls' = Append(calls, Call("query_to_plan", Top.path, <<>>))
    /\ stack' = Append(Repc("query", <<>>), Frame(Top.path \o <<"Q">>, "enter", <<>>))
    /\ UNCHANGED <<input, ret, results, result, union_all, lenVars>>

\* query_to_plan returns what the translation of the query's body returned,
\* and line 71 returns that to the caller as it is.
ReturnQuery ==
    /\ stack # <<>>
    /\ Top.pc = "query"
    /\ ret # <<>>
    /\ Return(ret[1])
    /\ UNCHANGED <<input, calls, visited, result, union_all, lenVars>>

\* The outermost call returns to the caller of set_expr_to_plan.
Finish ==
    /\ stack = <<>>
    /\ ret # <<>>
    /\ result = <<>>
    /\ result' = ret
    /\ UNCHANGED <<input, stack, ret, calls, visited, results,
                   union_all, lenVars>>

\* A caller asks is_union_all about the quantifier of the translated operation.
ClassifyQuantifier ==
    /\ result # <<>>
    /\ union_all = <<>>
    /\ input.kind = "SetOperation"
    /\ union_all' = << [set_quantifier |-> input.set_quantifier,
                        res |-> is_union_all(input.set_quantifier)] >>
    /\ UNCHANGED <<input, stack, ret, calls, visited, results,
                   result, lenVars>>

(***************************************************************************)
(* character_length.rs.  A string is a unit, the sequence of a few code    *)
(* points, repeated `times` times, so that strings longer than the range   *)
(* of i32 can be written down.  An array is its data type and its rows, a  *)
(* row being valid (with a value) or null (its value slot is empty).       *)
(* A usize, an i32 and an i64 are written with two digits, hi and lo, of   *)
(* radix Base: the number is hi * Base + lo, with 0 <= lo < Base.          *)
(***************************************************************************)
Base == 65536

Size(hi, lo) == [hi |-> hi, lo |-> lo]
Small(n) == Size(n \div Base, n % Base)

\* s * m for a small factor m.
Times(s, m) == Size(s.hi * m + (s.lo * m) \div Base, (s.lo * m) % Base)
Plus(s, t) == Size(s.hi + t.hi + (s.lo + t.lo) \div Base, (s.lo + t.lo) % Base)
AtMost(s, t) == s.hi < t.hi \/ (s.hi = t.hi /\ s.lo <= t.lo)

\* Number of bytes of the UTF-8 encoding of one code point.
Utf8Width(cp) ==
    CASE cp < 128 -> 1
      [] cp >= 128 /\ cp < 2048 -> 2
      [] cp >= 2048 /\ cp < 65536 -> 3
      [] OTHER -> 4

\* Bytes of the unit of a string.
RECURSIVE UnitBytes(_)
UnitBytes(unit) == IF unit = <<>> THEN 0 ELSE Utf8Width(Head(unit)) + UnitBytes(Tail(unit))

\* str::len(): the length of the string in bytes, a usize.
StrLen(value) == Times(value.times, UnitBytes(value.unit))

\* str::is_ascii()
StrIsAscii(value) == \A i \in 1..Len(value.unit) : value.unit[i] < 128

\* str::chars().count(), a usize.
CharsCount(value) == Times(value.times, Len(value.unit))

\* array.len(), array.is_null(i), array.value(i), array.null_count()
ArrayLen(a) == Len(a.rows)
IsNull(a, i) == ~a.rows[i].valid
Value(a, i) == a.rows[i].value
NullCount(a) == Cardinality({i \in 1..ArrayLen(a) : IsNull(a, i)})

\* array.is_ascii(): every byte of the array's value data is ASCII.
ArrayIsAscii(a) == \A i \in 1..ArrayLen(a) : StrIsAscii(Value(a, i))

\* array.nulls().cloned(): the validity bitmap.
Nulls(a) == [some |-> TRUE, val |-> [i \in 1..ArrayLen(a) |-> a.rows[i].valid]]
NoNulls == [some |-> FALSE, val |-> <<>>]

\* T::Native::usize_as(n): `n as T::Native`.  For i32 the low 32 bits of n, read
\* as a two's complement number.  For i64 the value itself: no str is longer
\* than isize::MAX bytes.
UsizeAs(T, n) ==
    IF T = "Int32"
    THEN LET h == n.hi % Base
         IN Size(IF h >= Base \div 2 THEN h - Base ELSE h, n.lo)
    ELSE n

\* T::default_value()
DefaultValue == Size(0, 0)

\* PrimitiveArray::<T>::new(values, nulls)
PrimitiveArray(T, values, nulls) == [data_type |-> T, values |-> values, nulls |-> nulls]

\* Lines 152-156 and 180-184: the length of one value of a non-ASCII array.
CountChars(T, value) ==
    IF StrIsAscii(value) THEN UsizeAs(T, StrLen(value)) ELSE UsizeAs(T, CharsCount(value))

\* character_length_general::<T, _>(array)
character_length_general(T, a) ==
    LET is_array_ascii_only == ArrayIsAscii(a)
    IN IF NullCount(a) = 0
       THEN IF is_array_ascii_only
            THEN PrimitiveArray(T,
                     [i \in 1..ArrayLen(a) |-> UsizeAs(T, StrLen(Value(a, i)))],
                     NoNulls)
            ELSE PrimitiveArray(T, [i \in 1..ArrayLen(a) |-> CountChars(T, Value(a, i))],
                                NoNulls)
       ELSE IF is_array_ascii_only
            THEN PrimitiveArray(T,
                     [i \in 1..ArrayLen(a) |->
                         IF IsNull(a, i) THEN DefaultValue
                         ELSE UsizeAs(T, StrLen(Value(a, i)))],
                     Nulls(a))
            ELSE PrimitiveArray(T,
                     [i \in 1..ArrayLen(a) |->
                         IF IsNull(a, i) THEN DefaultValue ELSE CountChars(T, Value(a, i))],
                     Nulls(a))

\* character_length(args): the match on args[0].data_type()
character_length(a) ==
    CASE a.data_type = "Utf8" -> Ok(character_length_general("Int32", a))
      [] a.data_type = "LargeUtf8" -> Ok(character_length_general("Int64", a))
      [] a.data_type = "Utf8View" -> Ok(character_length_general("Int32", a))

\* invoke_with_args: character_length is applied to the argument array.
InvokeCharacterLength ==
    /\ out = <<>>
    /\ out' = <<character_length(array)>>
    /\ UNCHANGED <<array, setVars>>

(***************************************************************************)
(* Inputs.                                                                 *)
(***************************************************************************)
Leaves ==
    {Select(n, TRUE) : n \in 1..MaxCols} \cup {Select(0, FALSE)}
    \cup {Values(n, TRUE) : n \in 1..MaxCols} \cup {Values(0, FALSE)}
    \cup {Unsupported("TABLE t")}

\* Every operator and quantifier over every pair of leaves.
FlatOperations ==
    {SetOperation(op, l, r, q, b) :
        op \in SetOperator, l \in Leaves, r \in Leaves, q \in SetQuantifier, b \in BOOLEAN}

\* Operations used as children of a nested operation.
InnerOperations ==
    {SetOperation(op, l, r, q, TRUE) :
        op \in {"Union", "Except"},
        l \in {Select(1, TRUE), Select(0, FALSE)},
        r \in {Select(1, TRUE), Select(0, FALSE)},
        q \in {"All", "ByName"}}

\* e wrapped in k nested queries.
RECURSIVE QueryChain(_, _)
QueryChain(k, e) == IF k = 0 THEN e ELSE Query(QueryChain(k - 1, e))

QueryChains ==
    {QueryChain(k, e) : k \in 1..MaxNest, e \in {Select(1, TRUE), Select(0, FALSE)}}

Children ==
    {Select(1, TRUE), Select(MaxCols, TRUE), Select(0, FALSE)}
    \cup InnerOperations \cup QueryChains

NestedOperations ==
    {SetOperation(op, l, r, q, TRUE) :
        op \in SetOperator, l \in Children, r \in Children, q \in SetQuantifier}

Inputs ==
    Leaves \cup QueryChains \cup {Query(e) : e \in InnerOperations}
    \cup FlatOperations \cup NestedOperations

CodePoints == {97, 233, 128512}
Units == UNION {[1..n -> CodePoints] : n \in 0..MaxStrLen}

\* A unit taken once, 2^30 times or 2^31 times.
Repeats == {Small(1), Size(Base \div 4, 0), Size(Base \div 2, 0)}
String(unit, times) == [unit |-> unit, times |-> times]
EmptyString == String(<<>>, Small(1))
Strings == {String(u, k) : u \in Units \ {<<>>}, k \in Repeats} \cup {EmptyString}
Rows ==
    {[valid |-> TRUE, value |-> v] : v \in Strings}
    \cup {[valid |-> FALSE, value |-> EmptyString]}

\* Bytes of the value data of the rows.
RECURSIVE DataBytes(_)
DataBytes(rows) ==
    IF rows = <<>> THEN Small(0) ELSE Plus(StrLen(Head(rows).value), DataBytes(Tail(rows)))

\* What an array of the type can hold: the offsets of Utf8 are i32, so its value
\* data ends below 2^31; the length of a view of Utf8View is a u32; the offsets
\* of LargeUtf8 are i64.
Representable(t, rows) ==
    CASE t = "Utf8" -> AtMost(DataBytes(rows), Size(Base \div 2 - 1, Base - 1))
      [] t = "Utf8View" ->
            \A i \in 1..Len(rows) : AtMost(StrLen(rows[i].value), Size(Base - 1, Base - 1))
      [] t = "LargeUtf8" -> TRUE

StringArrays ==
    {a \in {[data_type |-> t, rows |-> rows] :
                t \in {"Utf8", "LargeUtf8", "Utf8View"},
                rows \in UNION {[1..n -> Rows] : n \in 0..MaxRows}} :
        Representable(a.data_type, a.rows)}

IdleArray == [data_type |-> "Utf8", rows |-> <<>>]

(***************************************************************************)
(* Specifications.                                                         *)
(***************************************************************************)
\* set_expr_to_plan has been called with an input and has not run yet.
Init ==
    /\ input \in Inputs
    /\ stack = <<Frame(<<>>, "enter", <<>>)>>
    /\ ret = <<>>
    /\ calls = <<>>
    /\ visited = <<>>
    /\ results = <<>>
    /\ result = <<>>
    /\ union_all = <<>>
    /\ array = IdleArray
    /\ out = <<>>

\* character_length on an array; no translation is running.
InitCharLen ==
    /\ array \in StringArrays
    /\ out = <<>>
    /\ input = Unsupported("TABLE t")
    /\ stack = <<>>
    /\ ret = <<>>
    /\ calls = <<>>
    /\ visited = <<>>
    /\ results = <<>>
    /\ result = <<>>
    /\ union_all = <<>>

Next ==
    \/ TranslateSelect
    \/ TranslateValues
    \/ TranslateUnsupported
    \/ TranslateLeft
    \/ TranslateRight
    \/ CombineChildren
    \/ TranslateQuery
    \/ ReturnQuery
    \/ Finish
    \/ ClassifyQuantifier

NextCharLen == InvokeCharacterLength

Spec == Init /\ [][Next]_vars
SpecCharLen == InitCharLen /\ [][NextCharLen]_vars

(***************************************************************************)
(* Vocabulary of the properties.                                           *)
(***************************************************************************)
Finished(p) == p \in DOMAIN results
NodeAt(p) == SubExpr(input, p)
LeftOf(p) == results[p \o <<"L">>]
RightOf(p) == results[p \o <<"R">>]
FinishedOperations == {p \in DOMAIN results : NodeAt(p).kind = "SetOperation"}
ByNameFamily == {"ByName", "AllByName", "DistinctByName"}
Positional == {"All", "Distinct", "None"}
BothPlans(p) == LeftOf(p).ok /\ RightOf(p).ok
CallsFor(p, fns) == {i \in 1..Len(calls) : calls[i].path = p /\ calls[i].fn \in fns}

ArityMessage(op) == OperatorDisplay(op) \o " queries have different number of columns"
IsArityError(r, op) ==
    /\ ~r.ok
    /\ r.err.kind = "Plan"
    /\ r.err.message = ArityMessage(op)
NotImplementedMessage(op, q) ==
    OperatorDisplay(op) \o " " \o QuantifierDisplay(q) \o " not implemented"

\* The nodes of the tree below path p, parents first, left before right.
RECURSIVE Preorder(_, _)
Preorder(t, p) ==
    LET e == SubExpr(t, p)
    IN CASE e.kind = "SetOperation" ->
               <<p>> \o Preorder(t, p \o <<"L">>) \o Preorder(t, p \o <<"R">>)
         [] e.kind = "Query" -> <<p>> \o Preorder(t, p \o <<"Q">>)
         [] OTHER -> <<p>>

IsPlannedLeaf(p) == NodeAt(p).kind \in {"Select", "Values"}
IsLeafCall(c) == c.fn \in {"select_to_plan", "sql_values_to_plan"}
PathsOf(cs) == [i \in 1..Len(cs) |-> cs[i].path]
IsPrefix(a, b) == Len(a) <= Len(b) /\ a = SubSeq(b, 1, Len(a))
Occurrences(seq, x) == Cardinality({i \in 1..Len(seq) : seq[i] = x})
IndexOf(seq, x) == CHOOSE i \in 1..Len(seq) : seq[i] = x

\* The dispatch table of the operator and quantifier: the builder operation
\* and, for intersect and except, its `all` flag.
TableFn(op, q) ==
    CASE op = "Union" /\ q = "All" -> "union"
      [] op = "Union" /\ q = "AllByName" -> "union_by_name"
      [] op = "Union" /\ q = "Distinct" -> "union_distinct"
      [] op = "Union" /\ q = "None" -> "union_distinct"
      [] op = "Union" /\ q = "ByName" -> "union_by_name_distinct"
      [] op = "Union" /\ q = "DistinctByName" -> "union_by_name_distinct"
      [] op = "Intersect" /\ q \in {"All", "Distinct", "None"} -> "intersect"
      [] op = "Except" /\ q \in {"All", "Distinct", "None"} -> "except"
      [] OTHER -> "none"
TableArgs(op, q, l, r) ==
    IF op = "Union" THEN <<l, r>> ELSE <<l, r, q = "All">>

(***************************************************************************)
(* Properties.                                                             *)
(***************************************************************************)
\* C1: when both children of a set operation fail, the operation returns a
\* Collection of exactly the left child's error and then the right child's
\* error, each as the child returned it (a child's Collection stays one
\* element); when exactly one child fails, the operation returns that child's
\* error itself.
C1_ErrorAggregation ==
    \A p \in FinishedOperations :
        LET l == LeftOf(p)
            r == RightOf(p)
        IN /\ (~l.ok /\ ~r.ok) =>
                  /\ ~results[p].ok
                  /\ results[p].err.kind = "Collection"
                  /\ Len(results[p].err.errors) = 2
                  /\ results[p].err.errors[1] = l.err
                  /\ results[p].err.errors[2] = r.err
           /\ (~l.ok /\ r.ok) => results[p] = l
           /\ (l.ok /\ ~r.ok) => results[p] = r

\* A finished operation both of whose children failed, the left one with a
\* Collection of its own, which is kept as a single element.
C1_Witness ==
    \E p \in FinishedOperations :
        /\ ~LeftOf(p).ok /\ ~RightOf(p).ok
        /\ LeftOf(p).err.kind = "Collection"
        /\ results[p].err.errors[1].kind = "Collection"
        /\ RightOf(p).err.kind = "Plan"

\* C2: the nodes are entered in the order parent, left subtree, right subtree,
\* each once; the right child of an operation is entered whatever the left
\* child returned; at the end every node has been entered and the leaf
\* sub-planners have been called for the leaves from left to right.
C2_EvaluationOrder ==
    /\ IsPrefix(visited, Preorder(input, <<>>))
    /\ IsPrefix(PathsOf(SelectSeq(calls, IsLeafCall)),
                SelectSeq(Preorder(input, <<>>), IsPlannedLeaf))
    /\ \A p \in FinishedOperations :
          /\ Occurrences(visited, p \o <<"L">>) = 1
          /\ Occurrences(visited, p \o <<"R">>) = 1
          /\ IndexOf(visited, p \o <<"L">>) < IndexOf(visited, p \o <<"R">>)
    /\ result # <<>> =>
          /\ visited = Preorder(input, <<>>)
          /\ PathsOf(SelectSeq(calls, IsLeafCall))
                 = SelectSeq(Preorder(input, <<>>), IsPlannedLeaf)

\* A finished translation of an operation over two operations, in which the
\* first leaf failed and the last leaf was still planned.
C2_Witness ==
    /\ result # <<>>
    /\ input.kind = "SetOperation"
    /\ input.left.kind = "SetOperation"
    /\ input.right.kind = "SetOperation"
    /\ ~results[<<"L", "L">>].ok
    /\ calls[Len(calls)].path = <<"R", "R">>
    /\ calls[Len(calls)].fn = "select_to_plan"

\* C3: a positional set operation over two plans of different field counts N
\* and M fails with the Plan error "{operator} queries have different number
\* of columns", whose diagnostic has that message at the span of the operation
\* and the notes "this side has N fields" at the left span and "this side has
\* M fields" at the right span, and no plan-builder operation is invoked.
C3_ArityMismatch ==
    \A p \in FinishedOperations :
        LET e == NodeAt(p)
            n == FieldsLen(LeftOf(p).val)
            m == FieldsLen(RightOf(p).val)
        IN (e.set_quantifier \in Positional /\ BothPlans(p) /\ n # m) =>
              /\ results[p] =
                    Err(PlanErr(ArityMessage(e.op),
                        Diagnostic(ArityMessage(e.op), SpanOf(input, p),
                            << Note("this side has " \o ToString(n) \o " fields",
                                    SpanOf(input, p \o <<"L">>)),
                               Note("this side has " \o ToString(m) \o " fields",
                                    SpanOf(input, p \o <<"R">>)) >>)))
              /\ CallsFor(p, BuilderFns \cup {"set_operation_to_plan"}) = {}

\* UNION of a one-column and a two-column side has been rejected.
C3_Witness ==
    \E p \in FinishedOperations :
        /\ NodeAt(p).op = "Union"
        /\ NodeAt(p).set_quantifier = "Distinct"
        /\ BothPlans(p)
        /\ FieldsLen(LeftOf(p).val) = 1
        /\ FieldsLen(RightOf(p).val) = 2
        /\ ~results[p].ok
        /\ results[p].err.message = "UNION queries have different number of columns"
        /\ results[p].err.diagnostic.notes[2].message = "this side has 2 fields"

\* C4: for a by-name quantifier (ByName, AllByName, DistinctByName) the column
\* count validation is not run: with two plans the operation never fails with
\* the "different number of columns" error and the dispatcher is reached.
C4_ByNameSkipsValidation ==
    \A p \in FinishedOperations :
        LET e == NodeAt(p)
        IN (e.set_quantifier \in ByNameFamily /\ BothPlans(p)) =>
              /\ CallsFor(p, {"validate_set_expr_num_of_columns"}) = {}
              /\ ~IsArityError(results[p], e.op)
              /\ CallsFor(p, {"set_operation_to_plan"}) # {}

\* C5: set_operation_to_plan invokes exactly the builder operation of the
\* dispatch table, with the left plan first and the right plan second, and
\* for the six pairs the table does not list it invokes none and fails with
\* NotImplemented("{operator} {quantifier} not implemented").
C5_DispatchTable ==
    \A i \in 1..Len(calls) :
        calls[i].fn = "set_operation_to_plan" =>
            LET p == calls[i].path
                e == NodeAt(p)
                l == LeftOf(p).val
                r == RightOf(p).val
                fn == TableFn(e.op, e.set_quantifier)
            IN IF fn # "none"
               THEN /\ CallsFor(p, BuilderFns) = {i + 1}
                    /\ calls[i + 1].fn = fn
                    /\ calls[i + 1].args = TableArgs(e.op, e.set_quantifier, l, r)
                    /\ results[p].ok =>
                          /\ results[p].val.node = fn
                          /\ results[p].val.inputs = <<l, r>>
               ELSE /\ CallsFor(p, BuilderFns) = {}
                    /\ results[p] =
                          Err(NotImplemented(NotImplementedMessage(e.op, e.set_quantifier)))

\* EXCEPT ALL has been dispatched to except with all = true, left plan first.
C5_Witness ==
    \E i \in 1..Len(calls) :
        /\ calls[i].fn = "except"
        /\ NodeAt(calls[i].path).set_quantifier = "All"
        /\ calls[i].args = <<LeftOf(calls[i].path).val, RightOf(calls[i].path).val, TRUE>>
        /\ LeftOf(calls[i].path).val # RightOf(calls[i].path).val

\* C6: INTERSECT or EXCEPT with a by-name quantifier over two plans always
\* fails with NotImplemented("{operator} {quantifier} not implemented"),
\* whatever the field counts of the two plans.
C6_ByNameNotImplemented ==
    \A p \in FinishedOperations :
        LET e == NodeAt(p)
        IN (e.op \in {"Intersect", "Except"} /\ e.set_quantifier \in ByNameFamily
                /\ BothPlans(p)) =>
              results[p] = Err(NotImplemented(NotImplementedMessage(e.op, e.set_quantifier)))

\* C7: a positional set operation over two plans of equal field counts passes
\* the validation and returns what the dispatched builder operation returns:
\* the plan built from the left and the right plan, or the builder's own
\* error as it is.
C7_EqualArityPassThrough ==
    \A p \in FinishedOperations :
        LET e == NodeAt(p)
            l == LeftOf(p)
            r == RightOf(p)
            fn == TableFn(e.op, e.set_quantifier)
        IN (e.set_quantifier \in Positional /\ BothPlans(p)
                /\ FieldsLen(l.val) = FieldsLen(r.val)) =>
              /\ Cardinality(CallsFor(p, {"validate_set_expr_num_of_columns"})) = 1
              /\ Cardinality(CallsFor(p, {"set_operation_to_plan"})) = 1
              /\ ~IsArityError(results[p], e.op)
              /\ e.builder_ok =>
                    /\ results[p].ok
                    /\ results[p].val.node = fn
                    /\ results[p].val.inputs = <<l.val, r.val>>
              /\ ~e.builder_ok => results[p] = Err(BuilderErr(fn))

\* INTERSECT over two two-column plans whose combination the builder rejects.
C7_Witness ==
    \E p \in FinishedOperations :
        /\ NodeAt(p).op = "Intersect"
        /\ NodeAt(p).set_quantifier = "None"
        /\ BothPlans(p)
        /\ FieldsLen(LeftOf(p).val) = 2
        /\ FieldsLen(RightOf(p).val) = 2
        /\ ~NodeAt(p).builder_ok
        /\ results[p] = Err(BuilderErr("intersect"))

\* C8: is_union_all never fails; it returns true for All and AllByName and
\* false for Distinct, ByName, DistinctByName and None.
C8_IsUnionAll ==
    \A i \in 1..Len(union_all) :
        LET q == union_all[i].set_quantifier
            r == union_all[i].res
        IN /\ r.ok
           /\ q = "All" => r.val = TRUE
           /\ q = "AllByName" => r.val = TRUE
           /\ q = "Distinct" => r.val = FALSE
           /\ q = "ByName" => r.val = FALSE
           /\ q = "DistinctByName" => r.val = FALSE
           /\ q = "None" => r.val = FALSE

\* is_union_all has answered for DistinctByName.
C8_Witness ==
    /\ union_all # <<>>
    /\ union_all[1].set_quantifier = "DistinctByName"
    /\ union_all[1].res = Ok(FALSE)

\* Number of Query nodes enclosing the node at path p.
QueriesAbove(p) == Cardinality({i \in 1..Len(p) : p[i] = "Q"})

OutIsNull(o, i) == o.nulls.some /\ ~o.nulls.val[i]
CodePointsOf(value) == Times(value.times, Len(value.unit))
C10_CharacterLength ==
    \A k \in 1..Len(out) :
        /\ out[k].ok
        /\ Len(out[k].val.values) = Len(array.rows)
        /\ \A i \in 1..Len(array.rows) :
              /\ OutIsNull(out[k].val, i) <=> ~array.rows[i].valid
              /\ array.rows[i].valid =>
                    out[k].val.values[i] = CodePointsOf(array.rows[i].value)

====
